---- MODULE Spec2Model ----
(***************************************************************************)
(* CPS transformation kernel of cont_expr.rs (t_k / t_c / m) and the       *)
(* lowering into_fexpr, over a locally-nameless term representation with   *)
(* scopes, binders and globally fresh free variables.                      *)
(***************************************************************************)
EXTENDS Integers, Sequences, FiniteSets, TLC

(* ---------------------------------------------------------------------- *)
(* Bounds of the input space.                                              *)
(* ---------------------------------------------------------------------- *)
\* largest number of nodes of a source expression
MaxSize == 5
\* number of distinct identifiers the front-end uses in source expressions
NumSrcIds == 2

SrcNames == <<"x", "y", "z", "w">>
SrcVars == {[name |-> SrcNames[((i - 1) % 4) + 1], id |-> i] : i \in 1..NumSrcIds}
Literals == {42}
\* identifier of the externally supplied halt continuation
halt_id == [name |-> "halt", id |-> 0]
\* every identity handed out by the fresh-name generator is above the source's
FirstFresh == NumSrcIds + 1

(* ---------------------------------------------------------------------- *)
(* Binding primitives: variables, binders, scopes.                         *)
(* ---------------------------------------------------------------------- *)
\* Var::Free(FreeVar { unique_id, pretty_name })
Free(fv) == [kind |-> "Free", name |-> fv.name, n |-> fv.id]
\* Var::Bound(BoundVar { scope, binder }): every pattern is a single binder, so
\* the binder index is always 0 and only the scope offset is kept
Bound(scope) == [kind |-> "Bound", n |-> scope]
\* Binder(FreeVar)
Binder(fv) == fv

\* variables are equal by identity or by scope offset, never by hint
var_eq(a, b) == a.kind = b.kind /\ a.n = b.n

(* ---------------------------------------------------------------------- *)
(* Term constructors of the four grammars.                                 *)
(* ---------------------------------------------------------------------- *)
Var(v) == [tag |-> "Var", v |-> v]
Lit(l) == [tag |-> "Lit", l |-> l]
Lam(s) == [tag |-> "Lam", s |-> s]
App(f, e) == [tag |-> "App", f |-> f, e |-> e]

UVar(v) == [tag |-> "UVar", v |-> v]
ULit(l) == [tag |-> "ULit", l |-> l]
ULam(s) == [tag |-> "ULam", s |-> s]

KVar(v) == [tag |-> "KVar", v |-> v]
KLit(l) == [tag |-> "KLit", l |-> l]
KLam(s) == [tag |-> "KLam", s |-> s]

UCall(f, v, c) == [tag |-> "UCall", f |-> f, v |-> v, c |-> c]
KCall(f, v) == [tag |-> "KCall", f |-> f, v |-> v]

FVar(v) == [tag |-> "FVar", v |-> v]
FLit(l) == [tag |-> "FLit", l |-> l]
LamOne(s) == [tag |-> "LamOne", s |-> s]
LamTwo(s) == [tag |-> "LamTwo", s |-> s]
CallOne(f, v) == [tag |-> "CallOne", f |-> f, v |-> v]
CallTwo(f, v, c) == [tag |-> "CallTwo", f |-> f, v |-> v, c |-> c]

VarTags == {"Var", "UVar", "KVar", "FVar"}
LitTags == {"Lit", "ULit", "KLit", "FLit"}
Lam1Tags == {"Lam", "KLam", "LamOne"}
Lam2Tags == {"ULam", "LamTwo"}
Call2Tags == {"App", "KCall", "CallOne"}
Call3Tags == {"UCall", "CallTwo"}

\* Scope { unsafe_pattern, unsafe_body } built without closing anything
RawScope(p, b) == [unsafe_pattern |-> p, unsafe_body |-> b]

\* second child of a two-child node: App(f, e), KCall(f, v), CallOne(f, v)
Arg(t) == IF t.tag = "App" THEN t.e ELSE t.v
WithChildren2(t, a, b) == IF t.tag = "App" THEN [t EXCEPT !.f = a, !.e = b]
                          ELSE [t EXCEPT !.f = a, !.v = b]

\* BoundTerm::close_term: free occurrences of the binder become bound ones
close_var(v, lvl, b) ==
    IF v.kind = "Free" /\ v.n = b.id THEN Bound(lvl) ELSE v

RECURSIVE close_term(_, _, _)
close_term(t, lvl, b) ==
    CASE t.tag \in VarTags -> [t EXCEPT !.v = close_var(t.v, lvl, b)]
      [] t.tag \in LitTags -> t
      [] t.tag \in Lam1Tags ->
            [t EXCEPT !.s.unsafe_body = close_term(@, lvl + 1, b)]
      [] t.tag \in Lam2Tags ->
            [t EXCEPT !.s.unsafe_body.unsafe_body = close_term(@, lvl + 2, b)]
      [] t.tag \in Call2Tags ->
            WithChildren2(t, close_term(t.f, lvl, b), close_term(Arg(t), lvl, b))
      [] t.tag \in Call3Tags ->
            [t EXCEPT !.f = close_term(@, lvl, b), !.v = close_term(@, lvl, b),
                      !.c = close_term(@, lvl, b)]
      \* the placeholder left by a panic holds no variable
      [] OTHER -> t

\* BoundTerm::open_term: occurrences bound at this scope become the free variable
open_var(v, lvl, b) ==
    IF v.kind = "Bound" /\ v.n = lvl THEN Free(b) ELSE v

RECURSIVE open_term(_, _, _)
open_term(t, lvl, b) ==
    CASE t.tag \in VarTags -> [t EXCEPT !.v = open_var(t.v, lvl, b)]
      [] t.tag \in LitTags -> t
      [] t.tag \in Lam1Tags ->
            [t EXCEPT !.s.unsafe_body = open_term(@, lvl + 1, b)]
      [] t.tag \in Lam2Tags ->
            [t EXCEPT !.s.unsafe_body.unsafe_body = open_term(@, lvl + 2, b)]
      [] t.tag \in Call2Tags ->
            WithChildren2(t, open_term(t.f, lvl, b), open_term(Arg(t), lvl, b))
      [] t.tag \in Call3Tags ->
            [t EXCEPT !.f = open_term(@, lvl, b), !.v = open_term(@, lvl, b),
                      !.c = open_term(@, lvl, b)]

\* Scope::new(pattern, body): closes the pattern's identifier in the body
ScopeNew(p, body) == RawScope(p, close_term(body, 0, p))

\* Scope::new(p, Scope::new(k, body)): the inner scope is closed first, the
\* outer pattern is then closed through the inner scope, one level up
ScopeNew2(p, k, body) ==
    RawScope(p, RawScope(k, close_term(close_term(body, 0, k), 1, p)))

\* BoundTerm::term_eq: alpha-equivalence; patterns and hints do not matter,
\* and Ignore<Literal> takes no part in the comparison
RECURSIVE term_eq(_, _)
term_eq(a, b) ==
    /\ a.tag = b.tag
    /\ CASE a.tag \in VarTags -> var_eq(a.v, b.v)
         [] a.tag \in LitTags -> TRUE
         [] a.tag \in Lam1Tags -> term_eq(a.s.unsafe_body, b.s.unsafe_body)
         [] a.tag \in Lam2Tags ->
               term_eq(a.s.unsafe_body.unsafe_body, b.s.unsafe_body.unsafe_body)
         [] a.tag \in Call2Tags -> term_eq(a.f, b.f) /\ term_eq(Arg(a), Arg(b))
         [] a.tag \in Call3Tags ->
               term_eq(a.f, b.f) /\ term_eq(a.v, b.v) /\ term_eq(a.c, b.c)

(* ---------------------------------------------------------------------- *)
(* The fresh-name generator and the kernel's run state.                    *)
(* A run state is [next, mlog, panicked]: the generator's counter, the     *)
(* node kinds m has been invoked on, and whether unreachable!() was hit.   *)
(* ---------------------------------------------------------------------- *)
\* FreeVar::fresh_named(hint): the identity is the counter's current value
fresh_named(hint, st) == [name |-> hint, id |-> st.next]
Bump(st) == [st EXCEPT !.next = @ + 1]

\* Scope::unbind: the pattern is freshened and the body opened with it
unbind(s, st) ==
    LET p == [name |-> s.unsafe_pattern.name, id |-> st.next]
    IN  [p |-> p, t |-> open_term(s.unsafe_body, 0, p), st |-> Bump(st)]

\* value standing for the absence of a result after a panic
Unreachable == [tag |-> "Unreachable"]

(* ---------------------------------------------------------------------- *)
(* The kernel.                                                             *)
(* ---------------------------------------------------------------------- *)
RECURSIVE t_k(_, _, _)
RECURSIVE t_c(_, _, _)
RECURSIVE m(_, _)

\* variant of m: the value binder and the continuation binder change places
m_swapped_binders(expr, st0) ==
    LET st == [st0 EXCEPT !.mlog = @ \cup {expr.tag}]
    IN  CASE expr.tag = "Lam" ->
               LET ub == unbind(expr.s, st)
                   k == fresh_named("k", ub.st)
                   body == t_c(ub.t, k, Bump(ub.st))
               IN  [u |-> ULam(ScopeNew2(Binder(k), ub.p, body.c)), st |-> body.st]
          [] expr.tag = "Var" -> [u |-> UVar(expr.v), st |-> st]
          [] expr.tag = "Lit" -> [u |-> ULit(expr.l), st |-> st]
          [] OTHER -> [u |-> Unreachable, st |-> [st EXCEPT !.panicked = TRUE]]

\* variant of m: the unbound parameter is stored as the pattern of the new
\* scope without being closed in the body
m_unclosed(expr, st0) ==
    LET st == [st0 EXCEPT !.mlog = @ \cup {expr.tag}]
    IN  CASE expr.tag = "Lam" ->
               LET ub == unbind(expr.s, st)
                   k == fresh_named("k", ub.st)
                   body == t_c(ub.t, k, Bump(ub.st))
               IN  [u |-> ULam(RawScope(ub.p, ScopeNew(Binder(k), body.c))),
                    st |-> body.st]
          [] expr.tag = "Var" -> [u |-> UVar(expr.v), st |-> st]
          [] expr.tag = "Lit" -> [u |-> ULit(expr.l), st |-> st]
          [] OTHER -> [u |-> Unreachable, st |-> [st EXCEPT !.panicked = TRUE]]

\* variant of m: the scope is taken apart by its fields and its body opened
\* with the scope's own pattern instead of a freshened one
m_reused_pattern(expr, st0) ==
    LET st == [st0 EXCEPT !.mlog = @ \cup {expr.tag}]
    IN  CASE expr.tag = "Lam" ->
               LET p == expr.s.unsafe_pattern
                   t == open_term(expr.s.unsafe_body, 0, p)
                   k == fresh_named("k", st)
                   body == t_c(t, k, Bump(st))
               IN  [u |-> ULam(ScopeNew2(p, Binder(k), body.c)), st |-> body.st]
          [] expr.tag = "Var" -> [u |-> UVar(expr.v), st |-> st]
          [] expr.tag = "Lit" -> [u |-> ULit(expr.l), st |-> st]
          [] OTHER -> [u |-> Unreachable, st |-> [st EXCEPT !.panicked = TRUE]]

m(expr, st0) ==
    LET st == [st0 EXCEPT !.mlog = @ \cup {expr.tag}]
    IN  CASE expr.tag = "Lam" ->
               LET ub == unbind(expr.s, st)
                   k == fresh_named("k", ub.st)
                   body == t_c(ub.t, k, Bump(ub.st))
               IN  [u |-> ULam(ScopeNew2(ub.p, Binder(k), body.c)), st |-> body.st]
          [] expr.tag = "Var" -> [u |-> UVar(expr.v), st |-> st]
          [] expr.tag = "Lit" -> [u |-> ULit(expr.l), st |-> st]
          [] OTHER -> [u |-> Unreachable, st |-> [st EXCEPT !.panicked = TRUE]]

\* variant of t_k: the user-call applies the argument to the function
t_k_swapped(expr, k, st) ==
    IF expr.tag \in {"Lam", "Var", "Lit"}
    THEN LET r == m(expr, st) IN [c |-> KCall(k, r.u), st |-> r.st]
    ELSE LET rv_v == fresh_named("rv", st)
             cont == KLam(ScopeNew(Binder(rv_v), KCall(k, UVar(Free(rv_v)))))
             st1 == Bump(st)
             f_v == fresh_named("f", st1)
             st2 == Bump(st1)
             e_v == fresh_named("e", st2)
             st3 == Bump(st2)
             inner == t_k(expr.e,
                          KLam(ScopeNew(Binder(e_v),
                               UCall(UVar(Free(e_v)), UVar(Free(f_v)), cont))),
                          st3)
         IN  t_k(expr.f, KLam(ScopeNew(Binder(f_v), inner.c)), inner.st)

\* variant of t_k: the argument position is translated outermost
t_k_arg_first(expr, k, st) ==
    IF expr.tag \in {"Lam", "Var", "Lit"}
    THEN LET r == m(expr, st) IN [c |-> KCall(k, r.u), st |-> r.st]
    ELSE LET rv_v == fresh_named("rv", st)
             cont == KLam(ScopeNew(Binder(rv_v), KCall(k, UVar(Free(rv_v)))))
             st1 == Bump(st)
             f_v == fresh_named("f", st1)
             st2 == Bump(st1)
             e_v == fresh_named("e", st2)
             st3 == Bump(st2)
             inner == t_k(expr.f,
                          KLam(ScopeNew(Binder(f_v),
                               UCall(UVar(Free(f_v)), UVar(Free(e_v)), cont))),
                          st3)
         IN  t_k(expr.e, KLam(ScopeNew(Binder(e_v), inner.c)), inner.st)

\* variant of t_k: the innermost continuation returns the argument to k
\* instead of applying the function to it
t_k_no_apply(expr, k, st) ==
    IF expr.tag \in {"Lam", "Var", "Lit"}
    THEN LET r == m(expr, st) IN [c |-> KCall(k, r.u), st |-> r.st]
    ELSE LET f_v == fresh_named("f", st)
             st1 == Bump(st)
             e_v == fresh_named("e", st1)
             st2 == Bump(st1)
             inner == t_k(expr.e,
                          KLam(ScopeNew(Binder(e_v), KCall(k, UVar(Free(e_v))))),
                          st2)
         IN  t_k(expr.f, KLam(ScopeNew(Binder(f_v), inner.c)), inner.st)

t_k(expr, k, st) ==
    IF expr.tag \in {"Lam", "Var", "Lit"}
    THEN LET r == m(expr, st) IN [c |-> KCall(k, r.u), st |-> r.st]
    ELSE LET rv_v == fresh_named("rv", st)
             cont == KLam(ScopeNew(Binder(rv_v), KCall(k, UVar(Free(rv_v)))))
             st1 == Bump(st)
             f_v == fresh_named("f", st1)
             st2 == Bump(st1)
             e_v == fresh_named("e", st2)
             st3 == Bump(st2)
             inner == t_k(expr.e,
                          KLam(ScopeNew(Binder(e_v),
                               UCall(UVar(Free(f_v)), UVar(Free(e_v)), cont))),
                          st3)
         IN  t_k(expr.f, KLam(ScopeNew(Binder(f_v), inner.c)), inner.st)

\* variant of t_c: the continuation variable is reified as in t_k
t_c_reified(expr, c, st) ==
    LET c_v == KVar(Free(c))
    IN  IF expr.tag \in {"Lam", "Var", "Lit"}
        THEN LET r == m(expr, st) IN [c |-> KCall(c_v, r.u), st |-> r.st]
        ELSE LET rv_v == fresh_named("rv", st)
                 cont == KLam(ScopeNew(Binder(rv_v), KCall(c_v, UVar(Free(rv_v)))))
                 st0 == Bump(st)
                 f_v == fresh_named("f", st0)
                 st1 == Bump(st0)
                 e_v == fresh_named("e", st1)
                 st2 == Bump(st1)
                 inner == t_k(expr.e,
                              KLam(ScopeNew(Binder(e_v),
                                   UCall(UVar(Free(f_v)), UVar(Free(e_v)), cont))),
                              st2)
             IN  t_k(expr.f, KLam(ScopeNew(Binder(f_v), inner.c)), inner.st)

\* variant of t_c: every expression is handed to m, applications included
t_c_all_trivial(expr, c, st) ==
    LET c_v == KVar(Free(c))
        r == m(expr, st)
    IN  [c |-> KCall(c_v, r.u), st |-> r.st]

t_c(expr, c, st) ==
    LET c_v == KVar(Free(c))
    IN  IF expr.tag \in {"Lam", "Var", "Lit"}
        THEN LET r == m(expr, st) IN [c |-> KCall(c_v, r.u), st |-> r.st]
        ELSE LET f_v == fresh_named("f", st)
                 st1 == Bump(st)
                 e_v == fresh_named("e", st1)
                 st2 == Bump(st1)
                 inner == t_k(expr.e,
                              KLam(ScopeNew(Binder(e_v),
                                   UCall(UVar(Free(f_v)), UVar(Free(e_v)), c_v))),
                              st2)
             IN  t_k(expr.f, KLam(ScopeNew(Binder(f_v), inner.c)), inner.st)

(* ---------------------------------------------------------------------- *)
(* Lowering to the flat form.                                              *)
(* ---------------------------------------------------------------------- *)
RECURSIVE into_fexpr(_)

\* variant of into_fexpr: the continuation of a user-call is placed before
\* its value argument
into_fexpr_reordered(t) ==
    CASE t.tag = "ULam" ->
            LamTwo(RawScope(t.s.unsafe_pattern,
                            RawScope(t.s.unsafe_body.unsafe_pattern,
                                     into_fexpr(t.s.unsafe_body.unsafe_body))))
      [] t.tag = "KLam" ->
            LamOne(RawScope(t.s.unsafe_pattern, into_fexpr(t.s.unsafe_body)))
      [] t.tag \in {"UVar", "KVar"} -> FVar(t.v)
      [] t.tag \in {"ULit", "KLit"} -> FLit(t.l)
      [] t.tag = "UCall" ->
            CallTwo(into_fexpr(t.f), into_fexpr(t.c), into_fexpr(t.v))
      [] t.tag = "KCall" -> CallOne(into_fexpr(t.f), into_fexpr(t.v))

into_fexpr(t) ==
    CASE t.tag = "ULam" ->
            LamTwo(RawScope(t.s.unsafe_pattern,
                            RawScope(t.s.unsafe_body.unsafe_pattern,
                                     into_fexpr(t.s.unsafe_body.unsafe_body))))
      [] t.tag = "KLam" ->
            LamOne(RawScope(t.s.unsafe_pattern, into_fexpr(t.s.unsafe_body)))
      [] t.tag \in {"UVar", "KVar"} -> FVar(t.v)
      [] t.tag \in {"ULit", "KLit"} -> FLit(t.l)
      [] t.tag = "UCall" ->
            CallTwo(into_fexpr(t.f), into_fexpr(t.v), into_fexpr(t.c))
      [] t.tag = "KCall" -> CallOne(into_fexpr(t.f), into_fexpr(t.v))

(* ---------------------------------------------------------------------- *)
(* Inputs: surface expressions as the front-end builds them (lambdas are   *)
(* made with Scope::new), and the final continuations a caller supplies.   *)
(* ---------------------------------------------------------------------- *)
SrcVar(i) == CHOOSE x \in SrcVars : x.id = i
\* the identifiers the front-end binds in lambdas; both also occur free
BinderVars == {SrcVar(1), SrcVar(NumSrcIds)}

RECURSIVE ExprsOfSize(_)
ExprsOfSize(n) ==
    IF n = 1
    THEN {Var(Free(x)) : x \in SrcVars} \cup {Lit(l) : l \in Literals}
    ELSE {Lam(ScopeNew(Binder(x), b)) : x \in BinderVars, b \in ExprsOfSize(n - 1)}
         \cup UNION {{App(f, a) : f \in ExprsOfSize(i), a \in ExprsOfSize(n - 1 - i)}
                     : i \in 1..(n - 2)}

Exprs == UNION {ExprsOfSize(n) : n \in 1..MaxSize}

HaltVar == KVar(Free(halt_id))
\* the top-level continuation (lambda (x) (halt x))
HaltLam(x) == KLam(ScopeNew(Binder(x), KCall(KVar(Free(halt_id)), UVar(Free(x)))))
\* a continuation that holds a user-call, a source identifier and a
\* user-lambda ignoring its continuation parameter:
\* (lambda (x) ((lambda (y x) (halt y)) y halt))
HaltApply(x, y) ==
    KLam(ScopeNew(Binder(x),
                  UCall(ULam(ScopeNew2(Binder(y), Binder(x),
                                       KCall(KVar(Free(halt_id)), UVar(Free(y))))),
                        UVar(Free(y)),
                        KVar(Free(halt_id)))))
\* a literal in continuation position
HaltLit == KLit(42)

Halts == {HaltVar, HaltLam(SrcVar(1)), HaltLit,
          HaltApply(SrcVar(1), SrcVar(NumSrcIds))}

\* the expressions that differ from t in the patterns of its scopes only;
\* the bodies are untouched, so a pattern may name an identifier that is free
\* under it, as after a substitution
RECURSIVE Variants(_)
Variants(t) ==
    CASE t.tag = "Lam" ->
            {Lam(RawScope(Binder(x), b)) : x \in BinderVars, b \in Variants(t.s.unsafe_body)}
      [] t.tag = "App" -> {App(f, a) : f \in Variants(t.f), a \in Variants(t.e)}
      [] OTHER -> {t}

NoCall == [tag |-> "None"]

(* ---------------------------------------------------------------------- *)
(* The driver: cps runs on e, then on e2 (e up to the names of binders)    *)
(* with the same generator, then both results are lowered.                 *)
(* ---------------------------------------------------------------------- *)
VARIABLES e, e2, halt, pc, next, mlog, out, out2, flat, flat2

vars == <<e, e2, halt, pc, next, mlog, out, out2, flat, flat2>>

Init ==
    /\ e \in Exprs
    /\ e2 = NoCall
    /\ halt \in Halts
    /\ pc = "init"
    /\ next = FirstFresh
    /\ mlog = {}
    /\ out = NoCall
    /\ out2 = NoCall
    /\ flat = NoCall
    /\ flat2 = NoCall

\* cps(e, halt) = t_k(e, halt)
Cps ==
    /\ pc = "init"
    /\ LET r == t_k(e, halt, [next |-> next, mlog |-> mlog, panicked |-> FALSE])
       IN  /\ next' = r.st.next
           /\ mlog' = r.st.mlog
           /\ IF r.st.panicked
              THEN out' = NoCall /\ pc' = "panicked"
              ELSE out' = r.c /\ pc' = "cps1"
    /\ UNCHANGED <<e, e2, halt, out2, flat, flat2>>

\* a second run in the same process, on e again or on a renaming of it,
\* drawing from the same process-wide generator
CpsAgain ==
    /\ pc = "cps1"
    /\ \E x \in Variants(e) :
          LET r == t_k(x, halt, [next |-> next, mlog |-> mlog, panicked |-> FALSE])
          IN  /\ e2' = x
              /\ next' = r.st.next
              /\ mlog' = r.st.mlog
              /\ IF r.st.panicked
                 THEN out2' = NoCall /\ pc' = "panicked"
                 ELSE out2' = r.c /\ pc' = "cps2"
    /\ UNCHANGED <<e, halt, out, flat, flat2>>

\* CCall::into_fexpr on both results
Lower ==
    /\ pc = "cps2"
    /\ flat' = into_fexpr(out)
    /\ flat2' = into_fexpr(out2)
    /\ pc' = "lowered"
    /\ UNCHANGED <<e, e2, halt, next, mlog, out, out2>>

Next == Cps \/ CpsAgain \/ Lower

Spec == Init /\ [][Next]_vars

\* a single invocation of cps, with no second run and no lowering
SpecCps == Init /\ [][Cps]_vars

(* ---------------------------------------------------------------------- *)
(* Measures on terms used by the properties.                               *)
(* ---------------------------------------------------------------------- *)
\* the immediate subterms of a node, in order
Kids(t) ==
    CASE t.tag \in Lam1Tags -> <<t.s.unsafe_body>>
      [] t.tag \in Lam2Tags -> <<t.s.unsafe_body.unsafe_body>>
      [] t.tag \in Call2Tags -> <<t.f, Arg(t)>>
      [] t.tag \in Call3Tags -> <<t.f, t.v, t.c>>
      [] OTHER -> <<>>

\* the number of binders a node puts around its subterms
Binds(t) == IF t.tag \in Lam1Tags THEN 1 ELSE IF t.tag \in Lam2Tags THEN 2 ELSE 0

IsVarNode(t) == t.tag \in VarTags

\* the identities of the free variables of a term
RECURSIVE fv(_)
fv(t) ==
    IF IsVarNode(t)
    THEN IF t.v.kind = "Free" THEN {t.v.n} ELSE {}
    ELSE UNION {fv(Kids(t)[i]) : i \in DOMAIN Kids(t)}

\* the number of free occurrences of an identity
RECURSIVE FreeOcc(_, _)
FreeOcc(t, id) ==
    IF IsVarNode(t)
    THEN IF t.v.kind = "Free" /\ t.v.n = id THEN 1 ELSE 0
    ELSE LET ks == Kids(t)
         IN  (IF Len(ks) >= 1 THEN FreeOcc(ks[1], id) ELSE 0)
             + (IF Len(ks) >= 2 THEN FreeOcc(ks[2], id) ELSE 0)
             + (IF Len(ks) >= 3 THEN FreeOcc(ks[3], id) ELSE 0)

\* the number of occurrences bound by the binder lvl scopes out of t
RECURSIVE BoundOcc(_, _)
BoundOcc(t, lvl) ==
    IF IsVarNode(t)
    THEN IF t.v.kind = "Bound" /\ t.v.n = lvl THEN 1 ELSE 0
    ELSE LET ks == Kids(t)
             l == lvl + Binds(t)
         IN  (IF Len(ks) >= 1 THEN BoundOcc(ks[1], l) ELSE 0)
             + (IF Len(ks) >= 2 THEN BoundOcc(ks[2], l) ELSE 0)
             + (IF Len(ks) >= 3 THEN BoundOcc(ks[3], l) ELSE 0)

\* the number of nodes of t whose constructor is in tags
RECURSIVE CountTag(_, _)
CountTag(t, tags) ==
    LET ks == Kids(t)
    IN  (IF t.tag \in tags THEN 1 ELSE 0)
        + (IF Len(ks) >= 1 THEN CountTag(ks[1], tags) ELSE 0)
        + (IF Len(ks) >= 2 THEN CountTag(ks[2], tags) ELSE 0)
        + (IF Len(ks) >= 3 THEN CountTag(ks[3], tags) ELSE 0)

\* the number of subterms of t that are exactly h
RECURSIVE CountSub(_, _)
CountSub(t, h) ==
    LET ks == Kids(t)
    IN  (IF t = h THEN 1 ELSE 0)
        + (IF Len(ks) >= 1 THEN CountSub(ks[1], h) ELSE 0)
        + (IF Len(ks) >= 2 THEN CountSub(ks[2], h) ELSE 0)
        + (IF Len(ks) >= 3 THEN CountSub(ks[3], h) ELSE 0)

\* every bound occurrence refers to a binder within t (depth binders around t)
RECURSIVE LocallyClosed(_, _)
LocallyClosed(t, depth) ==
    IF IsVarNode(t)
    THEN t.v.kind = "Bound" => t.v.n < depth
    ELSE \A i \in DOMAIN Kids(t) : LocallyClosed(Kids(t)[i], depth + Binds(t))

\* every user-lambda of t outside the subterm h refers to its continuation
\* parameter exactly once
RECURSIVE LinearULams(_, _)
LinearULams(t, h) ==
    \/ t = h
    \/ /\ t.tag = "ULam" => BoundOcc(t.s.unsafe_body.unsafe_body, 0) = 1
       /\ \A i \in DOMAIN Kids(t) : LinearULams(Kids(t)[i], h)

(* ---------------------------------------------------------------------- *)
(* The translation of section 4.2 written on de Bruijn indices alone: no   *)
(* identifier is generated, no scope is opened or closed; a term moved     *)
(* under n more binders has its outward references raised by n.            *)
(* ---------------------------------------------------------------------- *)
RECURSIVE Shift(_, _, _)
Shift(t, d, cut) ==
    CASE IsVarNode(t) ->
            IF t.v.kind = "Bound" /\ t.v.n >= cut
            THEN [t EXCEPT !.v = Bound(t.v.n + d)] ELSE t
      [] t.tag \in LitTags -> t
      [] t.tag \in Lam1Tags -> [t EXCEPT !.s.unsafe_body = Shift(@, d, cut + 1)]
      [] t.tag \in Lam2Tags ->
            [t EXCEPT !.s.unsafe_body.unsafe_body = Shift(@, d, cut + 2)]
      [] t.tag \in Call2Tags ->
            WithChildren2(t, Shift(t.f, d, cut), Shift(Arg(t), d, cut))
      [] t.tag \in Call3Tags ->
            [t EXCEPT !.f = Shift(@, d, cut), !.v = Shift(@, d, cut),
                      !.c = Shift(@, d, cut)]

\* a pattern for the scopes of expected trees; alpha-equivalence ignores it
Anon == [name |-> "_", id |-> 0]
KL(body) == KLam(RawScope(Anon, body))
UL(body) == ULam(RawScope(Anon, RawScope(Anon, body)))
B(n) == UVar(Bound(n))

RECURSIVE RefTk(_, _)
RECURSIVE RefTc(_, _)
RECURSIVE RefM(_)
RefM(x) ==
    CASE x.tag = "Var" -> UVar(x.v)
      [] x.tag = "Lit" -> ULit(x.l)
      [] x.tag = "Lam" -> UL(RefTc(Shift(x.s.unsafe_body, 1, 0), KVar(Bound(0))))
RefTk(x, k) ==
    IF x.tag = "App"
    THEN RefTk(x.f,
               KL(RefTk(Shift(x.e, 1, 0),
                        KL(UCall(B(1), B(0), KL(KCall(Shift(k, 3, 0), B(0))))))))
    ELSE KCall(k, RefM(x))
RefTc(x, c) ==
    IF x.tag = "App"
    THEN RefTk(x.f,
               KL(RefTk(Shift(x.e, 1, 0), KL(UCall(B(1), B(0), Shift(c, 2, 0))))))
    ELSE KCall(c, RefM(x))

Ran == pc \in {"cps1", "cps2", "lowered"}
RanTwice == pc \in {"cps2", "lowered"}
IsFreeVarExpr(x) == x.tag = "Var" /\ x.v.kind = "Free"

(* ---------------------------------------------------------------------- *)
(* C1: simple application.                                                 *)
(* ---------------------------------------------------------------------- *)
IsSimpleApp ==
    e.tag = "App" /\ IsFreeVarExpr(e.f) /\ IsFreeVarExpr(e.e) /\ halt = HaltVar

\* C1 as stated: for App(f, a) with f and a free variables and halt a variable,
\* cps returns a tree alpha-equivalent to (f a (lambda (rv) (halt rv))), a
\* user-call at the root.
C1_AsStated ==
    (Ran /\ IsSimpleApp) =>
        term_eq(out, UCall(UVar(e.f.v), UVar(e.e.v), KL(KCall(halt, B(0)))))

\* C1 amended: for App(f, a) with f and a free variables and halt a variable,
\* cps returns a tree alpha-equivalent to
\* ((lambda (fv) ((lambda (ev) (fv ev (lambda (rv) (halt rv)))) a)) f): the
\* root is a continuation-call that passes f to a continuation binding fv,
\* whose body passes a to a continuation binding ev, whose body is the
\* user-call of fv on ev.
C1_SimpleApplication ==
    (Ran /\ IsSimpleApp) =>
        term_eq(out,
                KCall(KL(KCall(KL(UCall(B(1), B(0), KL(KCall(halt, B(0))))),
                               UVar(e.e.v))),
                      UVar(e.f.v)))

C1_Witness ==
    Ran /\ IsSimpleApp /\ e.f.v.n # e.e.v.n /\ out.tag = "KCall"

(* ---------------------------------------------------------------------- *)
(* C2: higher-order scenario.                                              *)
(* ---------------------------------------------------------------------- *)
IsSelfApp ==
    /\ e.tag = "Lam" /\ halt = HaltVar
    /\ e.s.unsafe_body = App(Var(Bound(0)), Var(Bound(0)))

\* C2 as stated: for Lam(f. App(f, f)) and halt a variable, cps returns a tree
\* alpha-equivalent to (halt (lambda (f k) (f f (lambda (rv) (k rv))))).
C2_AsStated ==
    (Ran /\ IsSelfApp) =>
        term_eq(out,
                KCall(halt, UL(UCall(B(1), B(1), KL(KCall(KVar(Bound(1)), B(0)))))))

\* C2 amended: for Lam(f. App(f, f)) and halt a variable, cps returns a tree
\* alpha-equivalent to
\* (halt (lambda (f k) ((lambda (fv) ((lambda (ev) (fv ev k)) f)) f))): the
\* body passes f to a continuation binding fv, then f to one binding ev, and
\* the user-call of fv on ev receives the variable k itself as continuation.
C2_HigherOrder ==
    (Ran /\ IsSelfApp) =>
        term_eq(out,
                KCall(halt,
                      UL(KCall(KL(KCall(KL(UCall(B(1), B(0), KVar(Bound(2)))), B(2))),
                               B(1)))))

C2_Witness ==
    Ran /\ IsSelfApp /\ out.tag = "KCall" /\ out.v.tag = "ULam"

(* ---------------------------------------------------------------------- *)
(* C3: trivial expressions.                                                *)
(* ---------------------------------------------------------------------- *)
IdentityLam == Lam(RawScope(SrcVar(1), Var(Bound(0))))

\* C3: for a trivial e (Var, Lit, Lam), t_k(e, k) is exactly KCall(k, M(e)):
\* k itself is in function position, a variable or literal is carried over
\* unchanged, and a lambda becomes a user-lambda with the same parameter and
\* a new continuation parameter around T_c of its body; cps(Lit 42, halt) is
\* KCall(halt, 42) and cps(Lam(x. x), halt) is (halt (lambda (x k) (k x))).
C3_Trivial ==
    (Ran /\ e.tag # "App") =>
        /\ out.tag = "KCall"
        /\ out.f = halt
        /\ e.tag = "Var" => out.v = UVar(e.v)
        /\ e.tag = "Lit" => out.v = ULit(e.l)
        /\ e.tag = "Lam" =>
              /\ out.v.tag = "ULam"
              /\ out.v.s.unsafe_pattern.name = e.s.unsafe_pattern.name
              /\ out.v.s.unsafe_body.unsafe_pattern.name = "k"
              /\ term_eq(out.v, RefM(e))
        /\ e = Lit(42) => out = KCall(halt, ULit(42))
        /\ term_eq(e, IdentityLam) =>
              term_eq(out, KCall(halt, UL(KCall(KVar(Bound(0)), B(1)))))

C3_Witness ==
    /\ Ran /\ e = IdentityLam /\ halt = HaltVar
    /\ out.v.s.unsafe_body.unsafe_body.f = KVar(Bound(0))

(* ---------------------------------------------------------------------- *)
(* C4: free-variable conservation.                                         *)
(* ---------------------------------------------------------------------- *)
\* C4: the free identifiers of cps(e, halt) are those of e together with those
\* of halt, each with as many free occurrences as in e and halt together; no
\* identifier of the fresh-name generator is free in the result and no bound
\* occurrence of the result lacks its binder.
C4_FreeVariables ==
    Ran =>
        /\ fv(out) = fv(e) \cup fv(halt)
        /\ \A id \in fv(e) \cup fv(halt) \cup fv(out) :
              FreeOcc(out, id) = FreeOcc(e, id) + FreeOcc(halt, id)
        /\ \A id \in fv(out) : id < FirstFresh
        /\ LocallyClosed(out, 0)

\* a lambda whose body applies its parameter to a free identifier that the
\* continuation mentions too
C4_Witness ==
    /\ Ran /\ e.tag = "Lam" /\ e.s.unsafe_body.tag = "App"
    /\ fv(e) # {} /\ fv(e) \subseteq fv(halt)
    /\ BoundOcc(e.s.unsafe_body, 0) > 0
    /\ next > FirstFresh + 3

(* ---------------------------------------------------------------------- *)
(* C5: alpha-stability.                                                    *)
(* ---------------------------------------------------------------------- *)
\* C5: when e and e2 are alpha-equivalent, the results of the two runs, which
\* draw different identities from the generator, are alpha-equivalent.
C5_AlphaStable ==
    (RanTwice /\ term_eq(e, e2)) => term_eq(out, out2)

\* two different but alpha-equivalent inputs with a free identifier under a
\* lambda, and two different result trees
C5_Witness ==
    /\ RanTwice /\ term_eq(e, e2) /\ e # e2 /\ out # out2
    /\ CountTag(e, {"Lam"}) > 0 /\ CountTag(e, {"App"}) > 0 /\ fv(e) # {}

(* ---------------------------------------------------------------------- *)
(* C7: the unreachable branch of m.                                        *)
(* ---------------------------------------------------------------------- *)
\* C7: m is never invoked on an App node, by t_k or by t_c, in either run;
\* no run ends in the fatal error.
C7_Unreachable ==
    /\ "App" \notin mlog
    /\ pc # "panicked"

\* m has been invoked from t_k on a lambda whose body is an application, and
\* from the translation of that application on a lambda and a variable
C7_Witness ==
    /\ pc = "lowered" /\ mlog = {"Lam", "Var"}
    /\ e.tag = "Lam" /\ e.s.unsafe_body.tag = "App"
    /\ e.s.unsafe_body.f.tag = "Lam"

(* ---------------------------------------------------------------------- *)
(* C8: lowering.                                                           *)
(* ---------------------------------------------------------------------- *)
\* the flat tree f is the CPS tree c constructor for constructor
RECURSIVE Projects(_, _)
Projects(c, f) ==
    CASE c.tag \in {"UVar", "KVar"} -> f = FVar(c.v)
      [] c.tag \in {"ULit", "KLit"} -> f = FLit(c.l)
      [] c.tag = "ULam" ->
            /\ f.tag = "LamTwo"
            /\ f.s.unsafe_pattern = c.s.unsafe_pattern
            /\ f.s.unsafe_body.unsafe_pattern = c.s.unsafe_body.unsafe_pattern
            /\ Projects(c.s.unsafe_body.unsafe_body, f.s.unsafe_body.unsafe_body)
      [] c.tag = "KLam" ->
            /\ f.tag = "LamOne"
            /\ f.s.unsafe_pattern = c.s.unsafe_pattern
            /\ Projects(c.s.unsafe_body, f.s.unsafe_body)
      [] c.tag = "UCall" ->
            /\ f.tag = "CallTwo"
            /\ Projects(c.f, f.f) /\ Projects(c.v, f.v) /\ Projects(c.c, f.c)
      [] c.tag = "KCall" ->
            /\ f.tag = "CallOne"
            /\ Projects(c.f, f.f) /\ Projects(c.v, f.v)

\* C8: the lowered tree has, node for node, the flat counterpart of each CPS
\* constructor with the same children in the same order and the same binders;
\* lowering draws nothing from the generator, keeps every free and bound
\* occurrence, and takes alpha-equivalent CPS trees to alpha-equivalent flat
\* trees.
C8_Lowering ==
    pc = "lowered" =>
        /\ Projects(out, flat)
        /\ Projects(out2, flat2)
        /\ fv(flat) = fv(out)
        /\ \A id \in fv(out) : FreeOcc(flat, id) = FreeOcc(out, id)
        /\ LocallyClosed(flat, 0)
        /\ term_eq(out, out2) => term_eq(flat, flat2)

C8_Witness ==
    /\ pc = "lowered" /\ flat # flat2 /\ term_eq(flat, flat2)
    /\ CountTag(flat, {"CallTwo"}) > 0 /\ CountTag(flat, {"LamTwo"}) > 0
    /\ CountTag(flat, {"LamOne"}) > 0 /\ CountTag(flat, {"CallOne"}) > 0

(* ---------------------------------------------------------------------- *)
(* C9: the application case.                                               *)
(* ---------------------------------------------------------------------- *)
\* C9: the result is alpha-equivalent to the recursive definition: for
\* App(f, a) under a continuation k, T_k(f, (lambda (fv) T_k(a, (lambda (ev)
\* (fv ev (lambda (rv) (k rv))))))), function position outermost; under a
\* continuation variable c the user-call receives c itself, with no lambda
\* around it.
C9_Application ==
    Ran => term_eq(out, RefTk(e, halt))

\* an application whose function position is an application, under a
\* continuation lambda
C9_Witness ==
    /\ Ran /\ e.tag = "App" /\ e.f.tag = "App" /\ halt.tag = "KLam"
    /\ out.tag = "KCall" /\ out.f.tag = "KLam"

(* ---------------------------------------------------------------------- *)
(* C10: continuation linearity.                                            *)
(* ---------------------------------------------------------------------- *)
\* C10 as stated: halt occurs exactly once in the result; each user-lambda
\* the kernel produces refers to its continuation parameter exactly once; the
\* result has as many user-calls as e has applications and as many
\* user-lambdas as e has lambdas.
C10_AsStated ==
    Ran =>
        /\ CountSub(out, halt) = 1
        /\ LinearULams(out, halt)
        /\ CountTag(out, {"UCall"}) = CountTag(e, {"App"})
        /\ CountTag(out, {"ULam"}) = CountTag(e, {"Lam"})

\* C10 amended: halt occurs exactly once in the result; each user-lambda the
\* kernel produces refers to its continuation parameter exactly once; the
\* result has as many user-calls as e has applications plus those halt holds,
\* and as many user-lambdas as e has lambdas plus those halt holds.
C10_Linearity ==
    Ran =>
        /\ CountSub(out, halt) = 1
        /\ LinearULams(out, halt)
        /\ CountTag(out, {"UCall"}) = CountTag(e, {"App"}) + CountTag(halt, {"UCall"})
        /\ CountTag(out, {"ULam"}) = CountTag(e, {"Lam"}) + CountTag(halt, {"ULam"})

\* a lambda applied to an argument, under a continuation that holds a
\* user-call and a user-lambda of its own
C10_Witness ==
    /\ Ran /\ e.tag = "App" /\ e.f.tag = "Lam"
    /\ CountTag(halt, {"UCall"}) = 1 /\ CountTag(halt, {"ULam"}) = 1
    /\ CountTag(out, {"UCall"}) = 2 /\ CountTag(out, {"ULam"}) = 2

====
